---- MODULE Spec2Model ----
(***************************************************************************)
(* Model of the two FBX texture-unpacking scripts of Ellie_MiniLounge:      *)
(*   variant A  src/textureUnpacker.py   (remove_packed_textures: import,   *)
(*              unpack with method REMOVE, verify, re-export)               *)
(*   variant B  src/textureUnpacker2.py  (unpack_fbx_textures: import,      *)
(*              unpack with method USE_LOCAL, move the files, clean up)     *)
(* The host application (bpy) and the operating system are the environment: *)
(* every host operator either returns or raises, and what it does to the    *)
(* images and to the disk is a nondeterministic choice.                     *)
(*                                                                         *)
(* Strings are sequences of one-character strings, so that the os.path      *)
(* functions are computed as Python computes them.                          *)
(* sys.exit(c), and a SystemExit(c) that nothing catches, end the process   *)
(* with status c.  bpy.ops.wm.quit_blender() is taken to return to the      *)
(* script (the scripts call sys.exit(1) right after it) and to end the      *)
(* process with status 0 when nothing else follows.                         *)
(***************************************************************************)
EXTENDS Naturals, Sequences, FiniteSets

(* ------------------------------ bounds --------------------------------- *)

\* number of image datablocks the imported scene may hold (named 1..NumImages)
NumImages == 2

\* number of packed libraries the imported scene may hold (variant A counts them)
MaxLibs == 1

(* ------------------------- strings and paths --------------------------- *)

\* str.lower(), on the alphabet of the model
Lower(c) ==
  CASE c = "F" -> "f"
    [] c = "B" -> "b"
    [] c = "X" -> "x"
    [] c = "T" -> "t"
    [] OTHER -> c

LowerStr(s) == [i \in DOMAIN s |-> Lower(s[i])]

\* str.rfind(c) + 1: the 1-based index of the last c in s, 0 when there is none
RFind(s, c) ==
  LET hits == {i \in DOMAIN s : s[i] = c}
  IN  IF hits = {} THEN 0 ELSE CHOOSE i \in hits : \A j \in hits : j <= i

StartsWith(s, pre) ==
  /\ Len(s) >= Len(pre)
  /\ SubSeq(s, 1, Len(pre)) = pre

\* str.rstrip('/')
RECURSIVE RStripSep(_)
RStripSep(s) ==
  IF s /= <<>> /\ s[Len(s)] = "/" THEN RStripSep(SubSeq(s, 1, Len(s) - 1)) ELSE s

\* os.path.dirname (posixpath)
dirname(p) ==
  LET i == RFind(p, "/")
      head == SubSeq(p, 1, i)
  IN  IF head /= <<>> /\ (\E k \in DOMAIN head : head[k] /= "/")
      THEN RStripSep(head)
      ELSE head

\* os.path.basename (posixpath)
basename(p) == SubSeq(p, RFind(p, "/") + 1, Len(p))

\* os.path.splitext (genericpath._splitext): <<root, ext>>; the extension starts
\* at the last dot, unless only dots precede it in the file name
splitext(p) ==
  LET sepIndex == RFind(p, "/")
      dotIndex == RFind(p, ".")
  IN  IF /\ dotIndex > sepIndex
         /\ \E k \in (sepIndex + 1)..(dotIndex - 1) : p[k] /= "."
      THEN <<SubSeq(p, 1, dotIndex - 1), SubSeq(p, dotIndex, Len(p))>>
      ELSE <<p, <<>>>>

\* os.path.join (posixpath), two arguments
join(a, b) ==
  IF b /= <<>> /\ b[1] = "/" THEN b
  ELSE IF a = <<>> \/ a[Len(a)] = "/" THEN a \o b
  ELSE a \o <<"/">> \o b

DotFbx == <<".", "f", "b", "x">>

NoTexturesSuffix == <<"_", "n", "o", "T", "e", "x", "t", "u", "r", "e", "s">>

TexturesName == <<"t", "e", "x", "t", "u", "r", "e", "s">>

\* mutant of DeriveOutPath: the file name is put together without the suffix
DeriveOutPath_NoSuffix(fbx_in) ==
  LET input_dir == dirname(fbx_in)
      base_name == basename(fbx_in)
      name_root == splitext(base_name)[1]
      ext0      == splitext(base_name)[2]
      name_ext  == IF LowerStr(ext0) /= DotFbx THEN DotFbx ELSE ext0
  IN  join(input_dir, name_root \o name_ext)

\* the output path variant A derives from its input path
DeriveOutPath(fbx_in) ==
  LET input_dir == dirname(fbx_in)
      base_name == basename(fbx_in)
      name_root == splitext(base_name)[1]
      ext0      == splitext(base_name)[2]
      name_ext  == IF LowerStr(ext0) /= DotFbx THEN DotFbx ELSE ext0
  IN  join(input_dir, name_root \o NoTexturesSuffix \o name_ext)

\* the absolute, normalised input paths the runs are given with -i
InputPaths ==
  { <<"/", "a", "/", "m", ".", "F", "B", "X">>,
    <<"/", ".", "f", "b", "x">> }

\* the command lines: -i absent (argparse fails), or -i <path>
Argvs == {[ok |-> FALSE, input |-> <<>>]} \cup {[ok |-> TRUE, input |-> p] : p \in InputPaths}

\* the exit status of argparse's ArgumentParser.error()
ArgparseErrorStatus == 2

(* ------------------------------ the disk ------------------------------- *)

Names == 1..NumImages

\* base names of the files the host writes when it unpacks
FNames == { <<"i", "1">>, <<"i", "2">> }

\* the folder named "textures" the host extracts into, beside the input file
TexDirOf(dir) == join(dir, TexturesName)

\* the places a run can find an extracted file: the extraction folder and the
\* input's own directory
FsPaths(dir) == {join(d, f) : d \in {dir, TexDirOf(dir)}, f \in FNames}

\* bpy.path.abspath: a "//" prefix is relative to the host's base directory
bpy_path_abspath(p, base) ==
  IF StartsWith(p, <<"/", "/">>) THEN join(base, SubSeq(p, 3, Len(p))) ELSE p

\* os.path.exists, for a file
exists(files, p) == p \in DOMAIN files

\* os.path.samefile: the same file system identity
samefile(files, p, q) == files[p] = files[q]

\* mutant of MoveFile: the file leaves its place and does not reach the target
MoveFile_Lost(files, src, dst) ==
  [p \in DOMAIN files \ {src} |-> files[p]]

\* shutil.move of one file onto a free path
MoveFile(files, src, dst) ==
  [p \in (DOMAIN files \ {src}) \cup {dst} |-> IF p = dst THEN files[src] ELSE files[p]]

\* os.listdir(d) is empty
DirEmpty(files, d) == \A p \in DOMAIN files : dirname(p) /= d

NoFiles == [p \in {} |-> <<>>]

(* ------------------------------ the host ------------------------------- *)

AbsentImage == [present |-> FALSE, packed_file |-> FALSE, source |-> "NONE", filepath |-> <<>>]

\* an image whose payload is embedded in the scene
PackedImage == [present |-> TRUE, packed_file |-> TRUE, source |-> "FILE", filepath |-> <<>>]

\* an image that references an external file
ExternalImage(p) == [present |-> TRUE, packed_file |-> FALSE, source |-> "FILE", filepath |-> p]

\* an image that is neither packed nor read from a file
GeneratedImage == [present |-> TRUE, packed_file |-> FALSE, source |-> "GENERATED", filepath |-> <<>>]

\* bpy.data.images right after import_scene.fbx returned
ImportedScenes == [Names -> {AbsentImage, PackedImage, GeneratedImage}]

\* the file paths the host may give an image it unpacked: absolute, or relative
\* to the host's base directory with the "//" prefix
UnpackedPaths(dir) ==
  FsPaths(dir) \cup {<<"/", "/">> \o TexturesName \o <<"/">> \o f : f \in FNames}

\* what unpack_all may leave of an image that was packed
PostUnpackImages(dir) ==
  {AbsentImage, PackedImage, GeneratedImage, ExternalImage(<<>>)}
    \cup {ExternalImage(p) : p \in UnpackedPaths(dir)}

\* bpy.data.images after unpack_all returned: only packed images change
UnpackedScenes(imgs, dir) ==
  {post \in [Names -> PostUnpackImages(dir) \cup {GeneratedImage}] :
     \A n \in Names : ~imgs[n].packed_file => post[n] = imgs[n]}

\* the disk after unpack_all returned: a file in the extraction folder is the
\* host's; a file in the input's directory was there before, either a file of
\* its own or a hard link to the extracted one
DisksAfterUnpack(dir) ==
  {fl \in UNION {[S -> FsPaths(dir)] : S \in SUBSET FsPaths(dir)} :
     \A f \in FNames :
       LET t == join(TexDirOf(dir), f)
           i == join(dir, f)
       IN  /\ t \in DOMAIN fl => fl[t] = t
           /\ i \in DOMAIN fl => (fl[i] = i \/ (t \in DOMAIN fl /\ fl[i] = t))}

\* the exceptions a host operator may raise
HostErrors == {"RuntimeError: Nothing packed", "RuntimeError: other", "Exception"}

IsRuntimeError(e) == e \in {"RuntimeError: Nothing packed", "RuntimeError: other"}

\* "Nothing packed" in str(e)
SaysNothingPacked(e) == e = "RuntimeError: Nothing packed"

(* ------------------------------ the state ------------------------------ *)

VARIABLES
  variant,            \* "A": textureUnpacker.py, "B": textureUnpacker2.py
  background,         \* bpy.app.background: the host runs headless
  argv,               \* the script's command line
  inputExists,        \* os.path.isfile of the input path
  pc,                 \* the position of the script
  exited,             \* <<>>, or <<c>> once the process ended with status c
  raised,             \* "none", or the exception that reached the host's console
  hostCalls,          \* the host operators invoked so far, in order
  fbx_in_path,
  fbx_out_path,       \* variant A
  input_dir,
  exported_to,        \* filepath of export_scene.fbx, <<>> before
  images,             \* bpy.data.images
  files,              \* the files on disk: path |-> file system identity
  dirs,               \* the "textures" folders that exist on disk
  packed_images_info, \* the pre-unpack inventory (A: packed_images_before)
  packed_others_before,
  total_packed_before,
  unpack_error,       \* the exception unpack_all raised, "none" when it did not
  idx,                \* the image the reconciliation loop is at
  unpacked_count,     \* variant A
  moved_count,        \* variant B
  failed_to_move,     \* variant B
  still_packed,       \* A: still_packed, B: still_packed_after
  processed_packed_names,
  possible_texture_dirs,
  dirs_left,          \* the folders the cleanup loop has still to visit
  log,                \* what was printed: <<kind, image name>>, 0 for no image
  dir_log             \* what was printed about a folder: <<kind, folder>>

vars ==
  <<variant, background, argv, inputExists, pc, exited, raised, hostCalls,
    fbx_in_path, fbx_out_path, input_dir, exported_to, images, files, dirs,
    packed_images_info, packed_others_before, total_packed_before,
    unpack_error, idx,
    unpacked_count, moved_count, failed_to_move, still_packed,
    processed_packed_names, possible_texture_dirs, dirs_left, log, dir_log>>

inputVars == <<variant, background, argv, inputExists>>

pathVars == <<fbx_in_path, fbx_out_path, input_dir>>

sceneVars == <<images, files, dirs>>

scanVars ==
  <<packed_images_info, packed_others_before, total_packed_before, unpack_error>>

loopVars ==
  <<idx, unpacked_count, moved_count, failed_to_move, still_packed,
    processed_packed_names, possible_texture_dirs, dirs_left>>

Init ==
  /\ variant \in {"A", "B"}
  /\ background \in BOOLEAN
  /\ argv \in Argvs
  /\ inputExists \in BOOLEAN
  /\ pc = "main"
  /\ exited = <<>>
  /\ raised = "none"
  /\ hostCalls = <<>>
  /\ fbx_in_path = <<>>
  /\ fbx_out_path = <<>>
  /\ input_dir = <<>>
  /\ exported_to = <<>>
  /\ images = [n \in Names |-> AbsentImage]
  /\ files = NoFiles
  /\ dirs = {}
  /\ packed_images_info = {}
  /\ packed_others_before = 0
  /\ total_packed_before = 0
  /\ unpack_error = "none"
  /\ idx = 0
  /\ unpacked_count = 0
  /\ moved_count = 0
  /\ failed_to_move = <<>>
  /\ still_packed = <<>>
  /\ processed_packed_names = {}
  /\ possible_texture_dirs = {}
  /\ dirs_left = {}
  /\ log = {}
  /\ dir_log = {}

(* --------------------------- ways of stopping -------------------------- *)

\* how a step ends the run: sys.exit(c) is exit = <<c>>; an exception that
\* nothing catches is raise; quit is a call of bpy.ops.wm.quit_blender()
ExitWith(c) == [exit |-> <<c>>, raise |-> "none", quit |-> FALSE]

RaiseToHost(e) == [exit |-> <<>>, raise |-> e, quit |-> FALSE]

QuitAndExitWith(c) == [exit |-> <<c>>, raise |-> "none", quit |-> TRUE]

\* the run ends as o says
Stop(o) ==
  /\ pc' = "done"
  /\ exited' = o.exit
  /\ raised' = o.raise

\* the script goes on at l
Goto(l) ==
  /\ pc' = l
  /\ exited' = exited
  /\ raised' = raised

Called(op) == hostCalls' = Append(hostCalls, op)

CalledThenMaybeQuit(op, o) ==
  hostCalls' = IF o.quit THEN hostCalls \o <<op, "quit">> ELSE Append(hostCalls, op)

(* --------------------------- the error policy -------------------------- *)

\* mutant of ArgumentError: the status the interface documents, not argparse's
ArgumentError_ExitOne(v, bg) == ExitWith(1)

\* parse_args failed: A lets argparse's SystemExit through; B exits with
\* e.code when headless and re-raises the same SystemExit otherwise
ArgumentError(v, bg) == ExitWith(ArgparseErrorStatus)

\* mutant of InputMissing: the headless test is dropped
InputMissing_NoModeTest(v, bg) == ExitWith(1)

\* the input file does not exist
InputMissing(v, bg) ==
  IF v = "A" \/ bg THEN ExitWith(1) ELSE RaiseToHost("FileNotFoundError")

\* the derived output path is the input path
PathsIdentical(bg) ==
  IF bg THEN ExitWith(1) ELSE RaiseToHost("ValueError")

\* mutant of ImportFailed: the host quits before sys.exit(1) is reached
ImportFailed_QuitOnly(v, bg, e) ==
  IF bg THEN QuitAndExitWith(0) ELSE RaiseToHost(e)

\* import_scene.fbx raised e
ImportFailed(v, bg, e) ==
  IF bg THEN (IF v = "A" THEN QuitAndExitWith(1) ELSE ExitWith(1))
  ELSE RaiseToHost(e)

\* export_scene.fbx raised e
ExportFailed(bg, e) ==
  IF bg THEN QuitAndExitWith(1) ELSE RaiseToHost(e)

\* unpack_all raised e and the script treats it as a note and goes on
UnpackErrorIsBenign(v, e) ==
  IF v = "A" THEN IsRuntimeError(e)
  ELSE IsRuntimeError(e) /\ SaysNothingPacked(e)

\* unpack_all raised e and the script does not go on
UnpackFailed(v, bg, e) ==
  IF v = "B" /\ IsRuntimeError(e) THEN RaiseToHost(e)
  ELSE IF bg THEN (IF v = "A" THEN QuitAndExitWith(1) ELSE ExitWith(1))
  ELSE RaiseToHost(e)

\* mutant of ShouldUnpack: the comparison is off by one
ShouldUnpack_OffByOne(total) == total >= 0

\* the guard of the unpack step
ShouldUnpack(total) == total > 0

(* ------------------------------ the steps ------------------------------ *)

\* __main__: parser.parse_args
ParseArgs ==
  /\ pc = "main"
  /\ IF argv.ok
     THEN Goto("validate") /\ fbx_in_path' = argv.input
     ELSE Stop(ArgumentError(variant, background)) /\ fbx_in_path' = fbx_in_path
  /\ UNCHANGED <<inputVars, hostCalls, fbx_out_path, input_dir, exported_to,
                 sceneVars, scanVars, loopVars, log, dir_log>>

\* __main__: os.path.isfile of the input path
ValidateInput ==
  /\ pc = "validate"
  /\ IF inputExists
     THEN Goto("derive")
     ELSE Stop(InputMissing(variant, background))
  /\ UNCHANGED <<inputVars, hostCalls, pathVars, exported_to, sceneVars,
                 scanVars, loopVars, log, dir_log>>

\* the head of the function: A derives the output path and refuses it when it
\* is the input path; B takes the input's directory and checks the file again
DerivePaths ==
  /\ pc = "derive"
  /\ input_dir' = dirname(fbx_in_path)
  /\ fbx_out_path' = IF variant = "A" THEN DeriveOutPath(fbx_in_path) ELSE <<>>
  /\ IF variant = "A"
     THEN IF fbx_in_path = fbx_out_path'
          THEN Stop(PathsIdentical(background))
          ELSE Goto("reset")
     ELSE IF ~inputExists
          THEN Stop(InputMissing("B", background))
          ELSE Goto("reset")
  /\ UNCHANGED <<inputVars, hostCalls, fbx_in_path, exported_to, sceneVars,
                 scanVars, loopVars, log, dir_log>>

\* select_all, delete, orphans_purge: no handler, so an error reaches the host
SceneReset ==
  /\ pc = "reset"
  /\ Called("reset")
  /\ \/ Goto("import")
     \/ \E e \in HostErrors : Stop(RaiseToHost(e))
  /\ UNCHANGED <<inputVars, pathVars, exported_to, sceneVars, scanVars,
                 loopVars, log, dir_log>>

\* import_scene.fbx returns: the scene holds the file's images
ImportReturns ==
  /\ pc = "import"
  /\ Called("import")
  /\ images' \in ImportedScenes
  /\ Goto("scan")
  /\ UNCHANGED <<inputVars, pathVars, exported_to, files, dirs, scanVars,
                 loopVars, log, dir_log>>

\* import_scene.fbx raises
ImportRaises ==
  /\ pc = "import"
  /\ \E e \in HostErrors :
       LET o == ImportFailed(variant, background, e)
       IN  Stop(o) /\ CalledThenMaybeQuit("import", o)
  /\ log' = log \cup {<<"import_error", 0>>}
  /\ UNCHANGED <<inputVars, pathVars, exported_to, sceneVars, scanVars,
                 loopVars, dir_log>>

\* the pre-unpack inventory; A also counts the packed libraries
ScanPacked ==
  /\ pc = "scan"
  /\ packed_images_info' = {n \in Names : images[n].present /\ images[n].packed_file}
  /\ packed_others_before' \in (IF variant = "A" THEN 0..MaxLibs ELSE {0})
  /\ total_packed_before' = Cardinality(packed_images_info') + packed_others_before'
  /\ Goto("unpack")
  /\ UNCHANGED <<inputVars, hostCalls, pathVars, exported_to, sceneVars,
                 unpack_error, loopVars, log, dir_log>>

\* the folder A creates before it unpacks (os.makedirs, exist_ok)
UnpackDirOfA == join(dirname(fbx_out_path), TexturesName)

\* nothing was packed: the unpack step is skipped, and with it the reconciliation
UnpackSkipped ==
  /\ pc = "unpack"
  /\ ~ShouldUnpack(total_packed_before)
  /\ Goto(IF variant = "A" THEN "export" ELSE "finish")
  /\ log' = log \cup {<<"none_packed", 0>>}
  /\ UNCHANGED <<inputVars, hostCalls, pathVars, exported_to, sceneVars,
                 scanVars, loopVars, dir_log>>

\* the disk once unpack_all returned: under A the host writes the file of every
\* image it unpacked; under B any disk the host and earlier runs can have left
DisksOf(post) ==
  IF variant = "A"
  THEN {[p \in {bpy_path_abspath(post[n].filepath, input_dir) :
                  n \in {m \in Names : post[m].present /\ post[m].filepath /= <<>>}}
           |-> p]}
  ELSE DisksAfterUnpack(input_dir)

\* the "textures" folders once unpack_all returned: one that holds a file exists
DirsOf(fl) ==
  LET made == IF variant = "A" THEN {UnpackDirOfA} ELSE {}
      t == TexDirOf(input_dir)
  IN  IF ~DirEmpty(fl, t) THEN {made \cup {t}} ELSE {made, made \cup {t}}

\* unpack_all returns
UnpackReturns ==
  /\ pc = "unpack"
  /\ ShouldUnpack(total_packed_before)
  /\ Called("unpack")
  /\ \E post \in UnpackedScenes(images, input_dir) :
       /\ images' = post
       /\ \E fl \in DisksOf(post) :
            /\ files' = fl
            /\ dirs' \in DirsOf(fl)
  /\ idx' = 1
  /\ Goto(IF variant = "A" THEN "verify" ELSE "loop")
  /\ UNCHANGED <<inputVars, pathVars, exported_to, scanVars, unpacked_count,
                 moved_count, failed_to_move, still_packed,
                 processed_packed_names, possible_texture_dirs, dirs_left,
                 log, dir_log>>

\* unpack_all raises
UnpackRaises ==
  /\ pc = "unpack"
  /\ ShouldUnpack(total_packed_before)
  /\ dirs' = IF variant = "A" THEN dirs \cup {UnpackDirOfA} ELSE dirs
  /\ \E e \in HostErrors :
       /\ unpack_error' = e
       /\ IF UnpackErrorIsBenign(variant, e)
          THEN /\ Called("unpack")
               /\ Goto(IF variant = "A" THEN "export" ELSE "finish")
               /\ total_packed_before' = IF variant = "B" THEN 0 ELSE total_packed_before
               /\ log' = log \cup {<<"unpack_note", 0>>}
          ELSE LET o == UnpackFailed(variant, background, e)
               IN  /\ Stop(o)
                   /\ CalledThenMaybeQuit("unpack", o)
                   /\ total_packed_before' = total_packed_before
                   /\ log' = log \cup {<<"unpack_error", 0>>}
  /\ UNCHANGED <<inputVars, pathVars, exported_to, images, files,
                 packed_images_info, packed_others_before, loopVars, dir_log>>

(* ------------------------ reconciliation, variant A --------------------- *)

\* the verification of one inventoried name: img is bpy.data.images.get(name)
VerifyClassA(img) ==
  IF img.present /\ ~img.packed_file /\ img.source = "FILE" THEN "verified"
  ELSE IF img.present /\ img.packed_file THEN "still_packed"
  ELSE "unreported"

\* one turn of the loop over packed_images_before
A_VerifyImage ==
  /\ pc = "verify"
  /\ idx \in Names
  /\ IF idx \in packed_images_info
     THEN LET c == VerifyClassA(images[idx])
          IN  /\ unpacked_count' = IF c = "verified" THEN unpacked_count + 1 ELSE unpacked_count
              /\ still_packed' = IF c = "still_packed" THEN Append(still_packed, idx) ELSE still_packed
              /\ log' = IF c = "verified" THEN log \cup {<<"verified", idx>>} ELSE log
     ELSE UNCHANGED <<unpacked_count, still_packed, log>>
  /\ idx' = idx + 1
  /\ Goto("verify")
  /\ UNCHANGED <<inputVars, hostCalls, pathVars, exported_to, sceneVars,
                 scanVars, moved_count, failed_to_move, processed_packed_names,
                 possible_texture_dirs, dirs_left, dir_log>>

\* after the loop: the still-packed warning and the count
A_VerifySummary ==
  /\ pc = "verify"
  /\ idx \notin Names
  /\ log' = log \cup {<<"still_packed", still_packed[i]>> : i \in DOMAIN still_packed}
                \cup {<<"unpacked_count", 0>>}
  /\ idx' = 0
  /\ Goto("export")
  /\ UNCHANGED <<inputVars, hostCalls, pathVars, exported_to, sceneVars,
                 scanVars, unpacked_count, moved_count, failed_to_move,
                 still_packed, processed_packed_names, possible_texture_dirs,
                 dirs_left, dir_log>>

(* ------------------------ reconciliation, variant B --------------------- *)

\* the branch the loop takes for an image that was packed
MoveClassB(img) ==
  IF ~img.packed_file /\ img.source = "FILE" /\ img.filepath /= <<>> THEN "unpacked"
  ELSE IF img.packed_file THEN "still_packed"
  ELSE "anomalous"

\* the folder of an extracted file is recorded when it is named "textures"
TextureDirsOf(unpacked_dir) ==
  IF LowerStr(basename(unpacked_dir)) = TexturesName THEN {unpacked_dir} ELSE {}

\* mutant of TargetConflict: an existing target that is another file is moved onto
TargetConflict_Overwrite(fl, src, dst) ==
  IF exists(fl, dst) /\ samefile(fl, src, dst) THEN "same" ELSE "free"

\* mutant of TargetConflict: the samefile test is dropped
TargetConflict_NoSameFile(fl, src, dst) ==
  IF ~exists(fl, dst) THEN "free" ELSE "different"

\* what is at the target path: nothing, the extracted file itself, or another file
TargetConflict(fl, src, dst) ==
  IF ~exists(fl, dst) THEN "free"
  ELSE IF samefile(fl, src, dst) THEN "same"
  ELSE "different"

Failure(n, why) == <<[name |-> n, reason |-> why]>>

\* the try block for one unpacked image: what it leaves of the disk and of the
\* image's path, what it counts and what it prints.  moveOk and reloadOk say
\* whether shutil.move and img.reload() return or raise.
MoveUnpacked(n, img, fl, target_dir, moveOk, reloadOk) ==
  LET src      == bpy_path_abspath(img.filepath, target_dir)
      dst      == join(target_dir, basename(src))
      texdirs  == TextureDirsOf(dirname(src))
      conflict == TargetConflict(fl, src, dst)
      keep     == [files |-> fl, filepath |-> img.filepath, moved |-> 0,
                   failed |-> <<>>, texdirs |-> texdirs, log |-> {}]
  IN  IF ~exists(fl, src)
      THEN [keep EXCEPT !.failed = Failure(n, "source file missing"),
                        !.log = {<<"source_missing", n>>}]
      ELSE IF conflict = "same"
      THEN IF reloadOk
           THEN [keep EXCEPT !.filepath = dst, !.moved = 1,
                             !.log = {<<"already_there", n>>}]
           ELSE [keep EXCEPT !.filepath = dst, !.failed = Failure(n, "error"),
                             !.log = {<<"already_there", n>>, <<"error", n>>}]
      ELSE IF conflict = "different"
      THEN [keep EXCEPT !.failed = Failure(n, "target exists"),
                        !.log = {<<"collision", n>>}]
      ELSE IF ~moveOk
      THEN [keep EXCEPT !.failed = Failure(n, "error"),
                        !.log = {<<"moving", n>>, <<"error", n>>}]
      ELSE IF reloadOk
      THEN [keep EXCEPT !.files = MoveFile(fl, src, dst), !.filepath = dst,
                        !.moved = 1, !.log = {<<"moving", n>>}]
      ELSE [keep EXCEPT !.files = MoveFile(fl, src, dst), !.filepath = dst,
                        !.failed = Failure(n, "error"),
                        !.log = {<<"moving", n>>, <<"error", n>>}]

\* one turn of the loop over bpy.data.images
B_ProcessImage ==
  /\ pc = "loop"
  /\ idx \in Names
  /\ IF images[idx].present /\ idx \in packed_images_info
     THEN /\ processed_packed_names' = processed_packed_names \cup {idx}
          /\ LET c == MoveClassB(images[idx])
             IN  IF c = "unpacked"
                 THEN \E moveOk \in BOOLEAN, reloadOk \in BOOLEAN :
                        LET r == MoveUnpacked(idx, images[idx], files, input_dir,
                                              moveOk, reloadOk)
                        IN  /\ files' = r.files
                            /\ images' = [images EXCEPT ![idx].filepath = r.filepath]
                            /\ moved_count' = moved_count + r.moved
                            /\ failed_to_move' = failed_to_move \o r.failed
                            /\ possible_texture_dirs' = possible_texture_dirs \cup r.texdirs
                            /\ log' = log \cup r.log
                            /\ still_packed' = still_packed
                 ELSE /\ still_packed' =
                           IF c = "still_packed" THEN Append(still_packed, idx)
                           ELSE still_packed
                      /\ log' = log \cup {<<c, idx>>}
                      /\ UNCHANGED <<files, images, moved_count, failed_to_move,
                                     possible_texture_dirs>>
     ELSE UNCHANGED <<processed_packed_names, files, images, moved_count,
                      failed_to_move, possible_texture_dirs, log, still_packed>>
  /\ idx' = idx + 1
  /\ Goto("loop")
  /\ UNCHANGED <<inputVars, hostCalls, pathVars, exported_to, dirs, scanVars,
                 unpacked_count, dirs_left, dir_log>>

\* after the loop: the names that were packed and are no longer in the scene,
\* and the summary
B_ReportMissing ==
  /\ pc = "loop"
  /\ idx \notin Names
  /\ log' = log \cup {<<"missing", n>> : n \in packed_images_info \ processed_packed_names}
                \cup {<<"summary", 0>>}
  /\ dirs_left' = possible_texture_dirs
  /\ idx' = 0
  /\ Goto("cleanup")
  /\ UNCHANGED <<inputVars, hostCalls, pathVars, exported_to, sceneVars,
                 scanVars, unpacked_count, moved_count, failed_to_move,
                 still_packed, processed_packed_names, possible_texture_dirs,
                 dir_log>>

\* mutant of MayRemoveDir: the folder is removed whatever it holds
MayRemoveDir_Force(fl, ds, d) == d \in ds

\* the folder is removed when it exists and os.listdir finds nothing in it
MayRemoveDir(fl, ds, d) == d \in ds /\ DirEmpty(fl, d)

\* one turn of the cleanup loop; rmOk says whether os.rmdir returns or raises
B_CleanupDir ==
  /\ pc = "cleanup"
  /\ \E d \in dirs_left :
       /\ dirs_left' = dirs_left \ {d}
       /\ IF MayRemoveDir(files, dirs, d)
          THEN \E rmOk \in BOOLEAN :
                 IF rmOk
                 THEN /\ dirs' = dirs \ {d}
                      /\ dir_log' = dir_log \cup {<<"removing", d>>}
                 ELSE /\ dirs' = dirs
                      /\ dir_log' = dir_log \cup {<<"removing", d>>, <<"rmdir_failed", d>>}
          ELSE /\ dirs' = dirs
               /\ dir_log' = IF d \in dirs THEN dir_log \cup {<<"not_empty", d>>} ELSE dir_log
  /\ Goto("cleanup")
  /\ UNCHANGED <<inputVars, hostCalls, pathVars, exported_to, images, files,
                 scanVars, idx, unpacked_count, moved_count, failed_to_move,
                 still_packed, processed_packed_names, possible_texture_dirs, log>>

B_CleanupDone ==
  /\ pc = "cleanup"
  /\ dirs_left = {}
  /\ Goto("finish")
  /\ UNCHANGED <<inputVars, hostCalls, pathVars, exported_to, sceneVars,
                 scanVars, loopVars, log, dir_log>>

(* --------------------------- export and the end ------------------------- *)

\* export_scene.fbx returns (variant A)
ExportReturns ==
  /\ pc = "export"
  /\ Called("export")
  /\ exported_to' = fbx_out_path
  /\ Goto("finish")
  /\ UNCHANGED <<inputVars, pathVars, sceneVars, scanVars, loopVars, log, dir_log>>

\* export_scene.fbx raises (variant A)
ExportRaises ==
  /\ pc = "export"
  /\ \E e \in HostErrors :
       LET o == ExportFailed(background, e)
       IN  Stop(o) /\ CalledThenMaybeQuit("export", o)
  /\ exported_to' = fbx_out_path
  /\ log' = log \cup {<<"export_error", 0>>}
  /\ UNCHANGED <<inputVars, pathVars, sceneVars, scanVars, loopVars, dir_log>>

\* variant B's closing message: the success line unless nothing was counted
\* as moved while something is listed as failed
ReportsSuccess_NeedsNoFailure(moved, failed) == moved > 0 /\ failed = <<>>

ReportsSuccess(moved, failed) == moved > 0 \/ failed = <<>>

\* the end of the function: headless, the host is told to quit
Finish ==
  /\ pc = "finish"
  /\ log' = log \cup {<<"finished", 0>>}
            \cup (IF variant = "B"
                  THEN {<<IF ReportsSuccess(moved_count, failed_to_move)
                          THEN "success" ELSE "none_moved", 0>>}
                  ELSE {})
  /\ pc' = "done"
  /\ raised' = raised
  /\ IF background
     THEN exited' = <<0>> /\ Called("quit")
     ELSE exited' = exited /\ hostCalls' = hostCalls
  /\ UNCHANGED <<inputVars, pathVars, exported_to, sceneVars, scanVars,
                 loopVars, dir_log>>

Next ==
  \/ ParseArgs
  \/ ValidateInput
  \/ DerivePaths
  \/ SceneReset
  \/ ImportReturns
  \/ ImportRaises
  \/ ScanPacked
  \/ UnpackSkipped
  \/ UnpackReturns
  \/ UnpackRaises
  \/ A_VerifyImage
  \/ A_VerifySummary
  \/ B_ProcessImage
  \/ B_ReportMissing
  \/ B_CleanupDir
  \/ B_CleanupDone
  \/ ExportReturns
  \/ ExportRaises
  \/ Finish

Spec == Init /\ [][Next]_vars

(* ------------------------------ the claims ----------------------------- *)

HasLog(kind, n) == <<kind, n>> \in log

Occurs(op) == \E i \in DOMAIN hostCalls : hostCalls[i] = op

\* the function ran to its last line
NormalCompletion == pc = "done" /\ HasLog("finished", 0)

\* the process ended with a status other than 0
ExitedNonZero == exited /= <<>> /\ exited[1] /= 0

\* the reconciliation step ran to its end (A: the verification, B: the move loop
\* and the report of the missing names)
ReconciliationDone ==
  \/ variant = "A" /\ HasLog("unpacked_count", 0)
  \/ variant = "B" /\ HasLog("summary", 0)

\* what the run reported of an inventoried name, as one of the four classes
UnpackedConfirmed(n) ==
  \E k \in {"verified", "moving", "already_there", "collision", "source_missing"} :
    HasLog(k, n)

ClassesOf(n) ==
  {c \in {"unpacked-confirmed", "still-packed", "missing", "anomalous"} :
     \/ c = "unpacked-confirmed" /\ UnpackedConfirmed(n)
     \/ c = "still-packed" /\ HasLog("still_packed", n)
     \/ c = "missing" /\ HasLog("missing", n)
     \/ c = "anomalous" /\ HasLog("anomalous", n)}

\* C1 (as claimed): once the reconciliation has run, every name of the
\* pre-unpack inventory is in exactly one of the four classes
\* unpacked-confirmed, still-packed, missing, anomalous.
C1_ExactlyOneClass ==
  ReconciliationDone =>
    \A n \in packed_images_info : Cardinality(ClassesOf(n)) = 1

\* C2 (as claimed): in a run that completes normally, every name of the
\* pre-unpack inventory was found or moved, or reported missing or still
\* packed, also when unpack_all raised an error taken as benign.
C2_AllReconciledAtCompletion ==
  NormalCompletion =>
    \A n \in packed_images_info : ClassesOf(n) /= {}

\* the warnings about one asset
PerAssetWarnings ==
  {w \in log : w[1] \in {"still_packed", "missing", "anomalous", "collision",
                         "source_missing", "error"}}

\* the scan ran and found nothing packed
ScanFoundNone ==
  /\ Occurs("import")
  /\ ~HasLog("import_error", 0)
  /\ pc /= "scan"
  /\ Cardinality(packed_images_info) + packed_others_before = 0

\* C6: when the initial scan finds no packed asset, unpack_all is never
\* invoked and no per-asset warning is printed, in both variants.
C6_NothingPackedNoUnpack ==
  ScanFoundNone => ~Occurs("unpack") /\ PerAssetWarnings = {}

\* a run over a scene with an unpacked image and nothing packed, at its end
C6_Witness ==
  /\ ScanFoundNone
  /\ NormalCompletion
  /\ \E n \in Names : images[n].present

\* C7 (as claimed): of the errors unpack_all raises only "nothing packed" is
\* benign; after any other the run ends, headless with a status other than 0,
\* interactive with the exception handed to the user.
C7_OnlyNothingPackedIsBenign ==
  unpack_error /= "none" =>
    IF SaysNothingPacked(unpack_error)
    THEN raised = "none" /\ ~ExitedNonZero
    ELSE /\ pc = "done"
         /\ ~HasLog("finished", 0)
         /\ IF background THEN ExitedNonZero ELSE raised = unpack_error

\* the last host operator invoked is op, or the quit that follows it
LastCallIs(op) ==
  LET k == Len(hostCalls)
  IN  /\ k >= 1
      /\ \/ hostCalls[k] = op
         \/ k >= 2 /\ hostCalls[k] = "quit" /\ hostCalls[k - 1] = op

\* C8: when import_scene.fbx (A, B) or export_scene.fbx (A) raises, the run
\* ends there and no later step runs; headless the process exits with a
\* status other than 0, interactive the exception reaches the user and the
\* host is neither quit nor exited.
C8_ImportExportErrorsAbort ==
  /\ HasLog("import_error", 0) =>
       /\ LastCallIs("import")
       /\ ~Occurs("unpack") /\ ~Occurs("export")
       /\ packed_images_info = {} /\ log = {<<"import_error", 0>>}
  /\ HasLog("export_error", 0) => variant = "A" /\ LastCallIs("export")
  /\ (HasLog("import_error", 0) \/ HasLog("export_error", 0)) =>
       /\ pc = "done"
       /\ ~HasLog("finished", 0)
       /\ IF background
          THEN ExitedNonZero /\ raised = "none"
          ELSE exited = <<>> /\ raised \in HostErrors /\ ~Occurs("quit")

\* the importer raised in a headless run
C8_Witness == HasLog("import_error", 0) /\ background /\ pc = "done"

\* the loop of B is at an image it unpacked: the image it is about to handle,
\* where its file was extracted to and where it is to go
AtUnpackedImage ==
  /\ variant = "B"
  /\ pc = "loop"
  /\ idx \in Names
  /\ images[idx].present
  /\ idx \in packed_images_info
  /\ MoveClassB(images[idx]) = "unpacked"

CurSrc == bpy_path_abspath(images[idx].filepath, input_dir)

CurDst == join(input_dir, basename(CurSrc))

\* the extracted file is on disk and the target path holds another file
AtCollision ==
  /\ AtUnpackedImage
  /\ exists(files, CurSrc)
  /\ exists(files, CurDst)
  /\ files[CurSrc] /= files[CurDst]

\* the extracted file is on disk and the target path holds that same file
AtSameFile ==
  /\ AtUnpackedImage
  /\ exists(files, CurSrc)
  /\ exists(files, CurDst)
  /\ files[CurSrc] = files[CurDst]

\* C3: in B, when the target path of an extracted file holds another file, the
\* step that handles the image moves nothing: the disk is as it was, target
\* and extracted file included, the image still refers to the extracted copy,
\* a collision warning is printed, and the image is listed as failed, not
\* counted as moved.
C3_CollisionSkipsMove ==
  [][AtCollision =>
       /\ files' = files
       /\ images' = images
       /\ <<"collision", idx>> \in log'
       /\ moved_count' = moved_count
       /\ failed_to_move' = Append(failed_to_move, [name |-> idx, reason |-> "target exists"])
       /\ pc' = "loop" /\ raised' = "none"]_vars

\* a collision was met, and the run went on to its end
C3_Witness ==
  /\ \E n \in Names : HasLog("collision", n)
  /\ NormalCompletion

CleanupDone ==
  /\ variant = "B"
  /\ HasLog("summary", 0)
  /\ pc \in {"finish", "done"}

\* C5 (as claimed): in B, once the moves are done, a recorded "textures" folder
\* is deleted if and only if it is empty then; one that is not empty is left
\* as it is and a note about it is printed.
C5_DeletedIffEmpty ==
  CleanupDone =>
    \A d \in possible_texture_dirs :
      /\ d \notin dirs <=> DirEmpty(files, d)
      /\ ~DirEmpty(files, d) => <<"not_empty", d>> \in dir_log

\* the cleanup never touches a file, and removes a folder only when it has
\* still to visit it and the folder holds nothing
CleanupStepIsSafe ==
  pc = "cleanup" =>
    /\ files' = files
    /\ \A d \in dirs \ dirs' :
         d \in dirs_left /\ DirEmpty(files, d) /\ <<"removing", d>> \in dir_log'

\* after the cleanup: a folder that is gone held nothing, an empty one that is
\* still there is one os.rmdir failed on, and one that holds something is
\* still there with the note printed
CleanupResult ==
  CleanupDone =>
    \A d \in possible_texture_dirs :
      /\ d \notin dirs => DirEmpty(files, d)
      /\ (d \in dirs /\ DirEmpty(files, d)) => <<"rmdir_failed", d>> \in dir_log
      /\ ~DirEmpty(files, d) =>
           /\ d \in dirs
           /\ <<"not_empty", d>> \in dir_log
           /\ <<"removing", d>> \notin dir_log

\* C5 (amended): in B, once the moves are done, a recorded "textures" folder is
\* deleted only if it is empty then, and an empty one is deleted unless
\* os.rmdir fails, in which case it stays and a warning is printed; one that
\* is not empty is left as it is, nothing in it deleted, and a note about it
\* is printed.
C5_DeletedOnlyIfEmpty == [](CleanupResult) /\ [][CleanupStepIsSafe]_vars

\* an extraction folder was emptied by the moves and removed
C5_Witness ==
  /\ CleanupDone
  /\ moved_count >= 1
  /\ \E d \in possible_texture_dirs : <<"removing", d>> \in dir_log /\ d \notin dirs

\* a host operator raised an error the handlers end the run for
HandledFatalError ==
  \/ HasLog("import_error", 0)
  \/ HasLog("export_error", 0)
  \/ unpack_error /= "none" /\ ~IsRuntimeError(unpack_error)

PreflightFailed ==
  \/ pc = "done" /\ argv.ok /\ ~inputExists
  \/ variant = "A" /\ fbx_in_path /= <<>> /\ fbx_in_path = fbx_out_path

\* C10 (as claimed): a pre-flight failure ends the run before any host
\* operator is invoked, and the process ends with an exit status other than 0.
C10_PreflightExitsNonZero ==
  PreflightFailed =>
    /\ pc = "done"
    /\ hostCalls = <<>>
    /\ ExitedNonZero

\* C10 (amended): a pre-flight failure ends the run before any host operator
\* is invoked; the process exits with status 1 when headless (and, for a
\* missing input file, under A in either mode); interactive, B raises
\* FileNotFoundError, and A raises ValueError for an output path that is the
\* input path, and the host is not exited.
C10_PreflightAbortsBeforeHost ==
  PreflightFailed =>
    /\ pc = "done"
    /\ hostCalls = <<>>
    /\ ~HasLog("finished", 0)
    /\ IF background \/ (variant = "A" /\ ~inputExists)
       THEN exited = <<1>> /\ raised = "none"
       ELSE /\ exited = <<>>
            /\ raised = (IF inputExists THEN "ValueError" ELSE "FileNotFoundError")

\* an interactive run of B on a path that is no file
C10_Witness ==
  /\ PreflightFailed
  /\ variant = "B"
  /\ ~background
  /\ raised = "FileNotFoundError"


(* ------------------------------ claim C11 ------------------------------- *)

\* variant B is in, or past, its move loop
LoopEntered ==
  /\ variant = "B"
  /\ pc \in {"loop", "cleanup", "finish"} \/ HasLog("summary", 0)

\* in B, from the first turn of the move loop on, no turn stops the run: the
\* loop always has a next turn, every inventoried image it has passed has been
\* handled and put in one class, after the loop every inventoried name has
\* one class, nothing is raised, and the run ends at its last line, with
\* status 0 when headless
LoopRunsToTheEnd ==
  LoopEntered =>
    /\ raised = "none"
    /\ pc = "loop" =>
         /\ idx \in 1..(NumImages + 1)
         /\ \A n \in packed_images_info :
              (n < idx /\ images[n].present) =>
                 /\ n \in processed_packed_names
                 /\ Cardinality(ClassesOf(n)) = 1
    /\ HasLog("summary", 0) =>
         \A n \in packed_images_info : Cardinality(ClassesOf(n)) = 1
    /\ pc = "cleanup" => dirs_left \subseteq possible_texture_dirs
    /\ pc /= "done" => exited = <<>>
    /\ pc = "done" =>
         /\ NormalCompletion
         /\ exited = IF background THEN <<0>> ELSE <<>>

\* in B, a turn of the move loop, whatever it met, is followed by the turn for
\* the next image; after the last image come the cleanup and the last line
LoopTurnGoesOn ==
  variant = "B" =>
    /\ (pc = "loop" /\ idx \in Names) =>
         (pc' = "loop" /\ idx' = idx + 1 /\ raised' = "none" /\ exited' = <<>>)
    /\ (pc = "loop" /\ idx \notin Names) => pc' = "cleanup"
    /\ pc = "cleanup" => (pc' \in {"cleanup", "finish"} /\ raised' = "none")
    /\ pc = "finish" => (pc' = "done" /\ raised' = "none")

\* C11 (as claimed): in B, a per-asset problem (still packed, missing,
\* anomalous, name collision, source file missing, exception while moving)
\* never stops the reconciliation: every other inventoried asset is still
\* processed, the run ends normally, and it reports success however many
\* assets had a problem.
C11_ProblemsNeverStopSuccess ==
  /\ [](/\ LoopRunsToTheEnd
        /\ (LoopEntered /\ pc = "done") => HasLog("success", 0))
  /\ [][LoopTurnGoesOn]_vars

\* the closing message of B against its two counts
ClosingMessageMatchesCounts ==
  (variant = "B" /\ NormalCompletion) =>
    /\ HasLog("success", 0) <=> (moved_count > 0 \/ failed_to_move = <<>>)
    /\ HasLog("none_moved", 0) <=> (moved_count = 0 /\ failed_to_move /= <<>>)

\* C11 (amended): in B, a per-asset problem never stops the reconciliation:
\* every other inventoried asset is still processed and the run ends normally
\* (status 0 when headless).  The closing message is the success line exactly
\* when some asset was counted as moved or none is listed as failed to move;
\* when nothing was moved and some asset is listed as failed, the run says
\* that no textures were successfully unpacked and moved.
C11_ProblemsNeverStopRun ==
  /\ [](LoopRunsToTheEnd /\ ClosingMessageMatchesCounts)
  /\ [][LoopTurnGoesOn]_vars

\* a headless run of B ended with status 0 after two assets had problems of
\* different kinds, one of them listed as failed, and nothing was moved
C11_Witness ==
  /\ variant = "B"
  /\ NormalCompletion
  /\ exited = <<0>>
  /\ HasLog("none_moved", 0)
  /\ \E n, m \in packed_images_info :
       /\ n /= m
       /\ HasLog("error", n)
       /\ HasLog("still_packed", m) \/ HasLog("collision", m)


(* ------------------------------ claim C12 ------------------------------- *)

\* the longest file name of WidePaths, in pieces
MaxPieces == 2

\* what the file names of WidePaths are made of: a letter, a dot, the
\* extension in two spellings, and the suffix variant A adds
NamePieces ==
  { <<"m">>, <<".">>, DotFbx, <<".", "F", "b", "X">>, NoTexturesSuffix }

RECURSIVE Concat(_)
Concat(ss) == IF ss = <<>> THEN <<>> ELSE Head(ss) \o Concat(Tail(ss))

\* file names; "." and ".." are no file names of a normalised path
FileNames ==
  {Concat(ss) : ss \in UNION {[1..k -> NamePieces] : k \in 1..MaxPieces}}
    \ {<<".">>, <<".", ".">>}

Folders == { <<"/">>, <<"/", "a", "/">> }

\* absolute, normalised paths of files, as os.path.abspath returns them
WidePaths == {d \o f : d \in Folders, f \in FileNames}

\* variant A, started with -i <path> for a file that exists
InitPaths ==
  /\ variant = "A"
  /\ background \in BOOLEAN
  /\ argv \in {[ok |-> TRUE, input |-> p] : p \in WidePaths}
  /\ inputExists = TRUE
  /\ pc = "main"
  /\ exited = <<>>
  /\ raised = "none"
  /\ hostCalls = <<>>
  /\ fbx_in_path = <<>>
  /\ fbx_out_path = <<>>
  /\ input_dir = <<>>
  /\ exported_to = <<>>
  /\ images = [n \in Names |-> AbsentImage]
  /\ files = NoFiles
  /\ dirs = {}
  /\ packed_images_info = {}
  /\ packed_others_before = 0
  /\ total_packed_before = 0
  /\ unpack_error = "none"
  /\ idx = 0
  /\ unpacked_count = 0
  /\ moved_count = 0
  /\ failed_to_move = <<>>
  /\ still_packed = <<>>
  /\ processed_packed_names = {}
  /\ possible_texture_dirs = {}
  /\ dirs_left = {}
  /\ log = {}
  /\ dir_log = {}

\* the steps of variant A from its start to the export, on the runs where
\* unpack_all is not called or raises (what unpack_all leaves when it returns
\* has no part in the paths)
NextPaths ==
  \/ ParseArgs
  \/ ValidateInput
  \/ DerivePaths
  \/ SceneReset
  \/ ImportReturns
  \/ ImportRaises
  \/ ScanPacked
  \/ UnpackSkipped
  \/ UnpackRaises
  \/ ExportReturns
  \/ ExportRaises
  \/ Finish

SpecPaths == InitPaths /\ [][NextPaths]_vars

\* C12: in A, for every absolute input path, the output path derived from it
\* differs from the input path, whether or not the run goes on after the
\* derivation (so the identical-paths stop is never taken), and the export
\* operator is only ever called with that derived path: the input file is
\* never the export target.
C12_OutputPathDiffersFromInput ==
  variant = "A" =>
    /\ pc \in {"reset", "import", "scan", "unpack", "verify", "export", "finish"} =>
         fbx_out_path /= <<>>
    /\ fbx_out_path /= <<>> =>
         /\ fbx_in_path /= <<>>
         /\ fbx_out_path /= fbx_in_path
         /\ dirname(fbx_out_path) = dirname(fbx_in_path)
    /\ Occurs("export") =>
         /\ fbx_out_path /= <<>>
         /\ exported_to \in {<<>>, fbx_out_path}
    /\ exported_to /= <<>> =>
         /\ Occurs("export")
         /\ exported_to /= fbx_in_path

\* the export was called for an input whose name already ends in the suffix
\* and the extension that A gives its output
C12_Witness ==
  /\ variant = "A"
  /\ Occurs("export")
  /\ exported_to /= <<>>
  /\ basename(fbx_in_path) = NoTexturesSuffix \o DotFbx


(* ------------------------------ claim C13 ------------------------------- *)

\* the image is in the failed-to-move list
Listed(n) == \E i \in DOMAIN failed_to_move : failed_to_move[i].name = n

\* the turn for the image ran to moved_count += 1: a move or a same-file skip
\* was announced and no error followed
CountedAsMoved(n) ==
  /\ HasLog("moving", n) \/ HasLog("already_there", n)
  /\ ~HasLog("error", n)

\* in B, what holds of the counted images in every state: the count is the
\* number of them, each one refers to a file that exists in the input's
\* directory, and none of them is listed as failed
CountedMatchesDisk ==
  variant = "B" =>
    /\ moved_count = Cardinality({n \in Names : CountedAsMoved(n)})
    /\ \A n \in Names :
         CountedAsMoved(n) =>
           /\ images[n].filepath /= <<>>
           /\ dirname(images[n].filepath) = input_dir
           /\ exists(files, images[n].filepath)
           /\ ~Listed(n)

\* the turn that counts an image leaves its file at the target path, its
\* reference on that path, and the failed list as it was
CountingTurn ==
  (AtUnpackedImage /\ moved_count' /= moved_count) =>
    /\ moved_count' = moved_count + 1
    /\ CurDst \in DOMAIN files'
    /\ images'[idx].filepath = CurDst
    /\ failed_to_move' = failed_to_move

\* the reason of the entry a turn has just added to the failed list
LastReason(failed) == failed[Len(failed)].reason

\* C13 (as claimed): in B, an asset counted as moved has its file at target
\* directory + extracted base name and its reference on that path; an asset
\* listed as failed-to-move has not had its file moved and its reference is
\* still the extraction path; no asset is both counted and listed.
C13_BookkeepingMatchesDisk ==
  /\ []CountedMatchesDisk
  /\ [][/\ CountingTurn
        /\ (AtUnpackedImage /\ failed_to_move' /= failed_to_move) =>
             /\ moved_count' = moved_count
             /\ files' = files
             /\ images' = images]_vars

\* C13 (amended): in B, an asset counted as moved has its file at target
\* directory + extracted base name and its reference on that path, and no
\* asset is both counted and listed as failed.  An asset listed for a missing
\* source file or an occupied target has had nothing moved and its reference
\* is unchanged.  An asset listed for an exception is in one of two states:
\* nothing moved and reference unchanged (shutil.move raised), or reference on
\* the target path with the file at the target, moved there or already there
\* (img.reload() raised after the path was set).
C13_BookkeepingUnlessReloadRaises ==
  /\ []CountedMatchesDisk
  /\ [][/\ CountingTurn
        /\ (AtUnpackedImage /\ failed_to_move' /= failed_to_move) =>
             /\ moved_count' = moved_count
             /\ Len(failed_to_move') = Len(failed_to_move) + 1
             /\ failed_to_move'[Len(failed_to_move')].name = idx
             /\ \/ /\ files' = files
                   /\ images' = images
                \/ /\ LastReason(failed_to_move') = "error"
                   /\ exists(files, CurSrc)
                   /\ images'[idx].filepath = CurDst
                   /\ CurDst \in DOMAIN files'
                   /\ files'[CurDst] = files[CurSrc]
                   /\ files' \in {files, MoveFile(files, CurSrc, CurDst)}]_vars

\* B ended with one asset counted as moved, its file in the input's directory,
\* and another listed as failed after its file was moved there too
C13_Witness ==
  /\ variant = "B"
  /\ NormalCompletion
  /\ \E n, m \in packed_images_info :
       /\ n /= m
       /\ CountedAsMoved(n)
       /\ HasLog("moving", n)
       /\ exists(files, images[n].filepath)
       /\ Listed(m)
       /\ HasLog("moving", m)
       /\ dirname(images[m].filepath) = input_dir
       /\ exists(files, images[m].filepath)

====
